---------------------------- MODULE Spec2Model ----------------------------
(***************************************************************************)
(* Pair identity, pair expansion, registry readers and coverage            *)
(* reconciliation of Frontier-CS:                                          *)
(*   src/src/frontier_cs/batch/pair.py                                     *)
(*   src/research/scripts/check_solutions.py                               *)
(*                                                                         *)
(* Every function of the two files is a pure function of its arguments and *)
(* of the files it reads.  The state of the model is the call made: `call` *)
(* holds the function called (fn), its arguments (files are given by their *)
(* contents) and, in `ret`, the value returned or the exception raised.    *)
(*                                                                         *)
(* A Python str is a sequence of one-character strings; a text file is     *)
(* the sequence of its lines, or ABSENT when the path does not exist.      *)
(***************************************************************************)
EXTENDS Integers, Sequences, FiniteSets

VARIABLES call

vars == <<call>>

(***************************************************************************)
(* Values.                                                                 *)
(***************************************************************************)
\* before any call
NoCall == [fn |-> "none"]

\* Python's None where a str may stand: a sequence that is no string of
\* characters
None == <<"None">>

\* a path that does not exist, and a text file with the given lines
ABSENT == [exists |-> FALSE, lines |-> <<>>]

TextFile(lines) == [exists |-> TRUE, lines |-> lines]

\* a function that returned v / that raised exception e
Return(v) == [kind |-> "return", value |-> v, exc |-> ""]

Raise(e) == [kind |-> "raise", value |-> <<>>, exc |-> e]

\* Pair(solution=..., problem=...)                          pair.py 15-20
Pair(solution, problem) == [solution |-> solution, problem |-> problem]

(***************************************************************************)
(* Characters and str methods.                                             *)
(***************************************************************************)
LOWER ==
  [A |-> "a", B |-> "b", C |-> "c", D |-> "d", E |-> "e", F |-> "f", G |-> "g",
   H |-> "h", I |-> "i", J |-> "j", K |-> "k", L |-> "l", M |-> "m", N |-> "n",
   O |-> "o", P |-> "p", Q |-> "q", R |-> "r", S |-> "s", T |-> "t", U |-> "u",
   V |-> "v", W |-> "w", X |-> "x", Y |-> "y", Z |-> "z"]

\* str.lower(), one character at a time (ASCII)
Lower(s) == [i \in 1..Len(s) |-> IF s[i] \in DOMAIN LOWER THEN LOWER[s[i]] ELSE s[i]]

Digits == <<"0", "1", "2", "3", "4", "5", "6", "7", "8", "9">>

HexDigits == Digits \o <<"a", "b", "c", "d", "e", "f">>

Range(s) == {s[i] : i \in 1..Len(s)}

SetMin(S) == CHOOSE m \in S : \A n \in S : m <= n

SetMax(S) == CHOOSE m \in S : \A n \in S : m >= n

\* the characters str.strip() removes (those the model's files contain)
Whitespace == {" "}

\* str.lstrip(chars)
LStrip(s, chars) ==
  LET keep == {i \in 1..Len(s) : s[i] \notin chars}
  IN  IF keep = {} THEN <<>> ELSE SubSeq(s, SetMin(keep), Len(s))

\* str.rstrip(chars)
RStrip(s, chars) ==
  LET keep == {i \in 1..Len(s) : s[i] \notin chars}
  IN  IF keep = {} THEN <<>> ELSE SubSeq(s, 1, SetMax(keep))

\* str.strip(chars)
Strip(s, chars) == LStrip(RStrip(s, chars), chars)

\* str.startswith(prefix)
StartsWith(s, prefix) ==
  /\ Len(prefix) <= Len(s)
  /\ SubSeq(s, 1, Len(prefix)) = prefix

\* s[n:]
Drop(s, n) == SubSeq(s, n + 1, Len(s))

\* s[:n], n >= 0
Take(s, n) == SubSeq(s, 1, IF n < Len(s) THEN n ELSE Len(s))

\* sep in s, for a one-character sep
Contains(s, sep) == \E i \in 1..Len(s) : s[i] = sep

RECURSIVE Find(_, _, _)
\* s.find(sep, i - 1) + 1 for a one-character sep; 0 when not found
Find(s, sep, i) ==
  IF i > Len(s) THEN 0
  ELSE IF s[i] = sep THEN i
  ELSE Find(s, sep, i + 1)

\* s.rsplit(sep, 1): the split at the last occurrence
Split1_last(s, sep) ==
  LET at == SetMax({i \in 1..Len(s) : s[i] = sep})
  IN  <<SubSeq(s, 1, at - 1), SubSeq(s, at + 1, Len(s))>>

\* s.split(sep, 1) when sep is in s: the parts before and after its first
\* occurrence
Split1(s, sep) ==
  LET at == Find(s, sep, 1)
  IN  <<SubSeq(s, 1, at - 1), SubSeq(s, at + 1, Len(s))>>

\* all strings over `chars` of length at most n
StringsUpTo(chars, n) == UNION {[1..k -> chars] : k \in 0..n}

\* ch * n
Rep(ch, n) == [i \in 1..n |-> ch]

(***************************************************************************)
(* Pair.safe_name and _sanitize_name                       pair.py 27-62  *)
(***************************************************************************)
\* valid = "abcdefghijklmnopqrstuvwxyz0123456789-"
valid == {LOWER[c] : c \in DOMAIN LOWER} \cup Range(Digits) \cup {"-"}

\* the fallback of an empty result: "job"
JOB == <<"j", "o", "b">>

\* the body of the loop without `last_dash`: every invalid character gives
\* a dash
SanitizeStep_every(st, ch) ==
  IF ch \in valid
  THEN [cleaned |-> Append(st.cleaned, ch), last_dash |-> (ch = "-")]
  ELSE [cleaned |-> Append(st.cleaned, "-"), last_dash |-> TRUE]

\* the body of the loop, for one character ch of name.lower(): st holds
\* `cleaned` and `last_dash`
SanitizeStep(st, ch) ==
  IF ch \in valid
  THEN [cleaned |-> Append(st.cleaned, ch), last_dash |-> (ch = "-")]
  ELSE IF ~st.last_dash
       THEN [cleaned |-> Append(st.cleaned, "-"), last_dash |-> TRUE]
       ELSE st

RECURSIVE SanitizeLoop(_, _, _, _)
\* `for ch in name.lower()` over s[lo..hi], entered with state st: the
\* characters in order, the range run as its first half and then its second
\* half.  (The test on `first` has TLC evaluate the first half before it
\* enters the second, which keeps its evaluation stack logarithmic in the
\* length; it is always true.)
SanitizeLoop(s, lo, hi, st) ==
  IF lo > hi THEN st
  ELSE IF lo = hi THEN SanitizeStep(st, s[lo])
  ELSE LET mid == (lo + hi) \div 2
           first == SanitizeLoop(s, lo, mid, st)
       IN  IF first.last_dash \in BOOLEAN
           THEN SanitizeLoop(s, mid + 1, hi, first)
           ELSE first

_sanitize_name(name) ==
  LET s == Lower(name)
      start == [cleaned |-> <<>>, last_dash |-> FALSE]
      sanitized == Strip(SanitizeLoop(s, 1, Len(s), start).cleaned, {"-"})
  IN  IF sanitized = <<>> THEN JOB ELSE sanitized

\* max_len = 63
max_len == 63

\* a code for every character, for the digest
CharCode(ch) ==
  IF ch \in Range(HexDigits) THEN CHOOSE i \in 1..16 : HexDigits[i] = ch
  ELSE IF ch \in DOMAIN LOWER THEN 17
  ELSE IF ch \in valid THEN 18
  ELSE IF ch = "_" THEN 19
  ELSE 20

RECURSIVE PolyHash(_, _, _, _, _)
\* a 16-bit polynomial hash of s[lo..hi] continued from h, with multiplier
\* `mul` (halved like SanitizeLoop)
PolyHash(s, lo, hi, h, mul) ==
  IF lo > hi THEN h
  ELSE IF lo = hi THEN (h * mul + CharCode(s[lo])) % 65536
  ELSE LET mid == (lo + hi) \div 2
           first == PolyHash(s, lo, mid, h, mul)
       IN  IF first \in Nat THEN PolyHash(s, mid + 1, hi, first, mul) ELSE first

\* hashlib.md5(base.encode("utf-8")).hexdigest()[:8]: eight hexadecimal
\* digits that are a function of base alone.  MD5 itself is stood in for by
\* two 16-bit polynomial hashes; what the model keeps of it is the length,
\* the alphabet and the dependence on base only.
Digest(base) ==
  LET h1 == PolyHash(base, 1, Len(base), 7, 31)
      h2 == PolyHash(base, 1, Len(base), 11, 37)
      hex4(h) == <<HexDigits[(h \div 4096) + 1], HexDigits[((h \div 256) % 16) + 1],
                   HexDigits[((h \div 16) % 16) + 1], HexDigits[(h % 16) + 1]>>
  IN  hex4(h1) \o hex4(h2)

\* safe_name with the room for the suffix forgotten (available = max_len)
safe_name_no_room(pair) ==
  LET base == pair.solution \o <<"-">> \o pair.problem
      digest == Digest(base)
      sanitized == _sanitize_name(base)
      suffix == <<"-">> \o digest
      available == max_len
      trimmed == RStrip(Take(sanitized, available), {"-"})
  IN  _sanitize_name(trimmed \o suffix)

\* Pair.safe_name
safe_name(pair) ==
  LET base == pair.solution \o <<"-">> \o pair.problem
      digest == Digest(base)
      sanitized == _sanitize_name(base)
      suffix == <<"-">> \o digest
      available == max_len - Len(suffix)
      trimmed == RStrip(Take(sanitized, available), {"-"})
  IN  _sanitize_name(trimmed \o suffix)

(***************************************************************************)
(* Inputs of the naming functions.                                         *)
(***************************************************************************)
MaxNameLen == 4

MaxSolLen == 1

MaxTailLen == 2

MaxFill == 62

FillWindow == 12

\* a lower-case letter, an upper-case letter, a digit, the dash and two
\* characters outside the valid set
NameChars == {"a", "B", "7", "-", "_", "."}

NameInputs == StringsUpTo(NameChars, MaxNameLen)

PairChars == {"a", "B", "-", "_"}

TailChars == {"B", "-", "_"}

SolutionInputs == StringsUpTo(PairChars, MaxSolLen)

Tails == StringsUpTo(TailChars, MaxTailLen)

\* problems: a short string, alone or set in a run of MaxFill "x" at a place
\* near the truncation point of safe_name
ProblemInputs ==
  Tails \cup
  {Rep("x", k) \o t \o Rep("x", MaxFill - k) :
     k \in (MaxFill - FillWindow)..MaxFill, t \in Tails}

(***************************************************************************)
(* Actions: one call of a naming function.                                 *)
(***************************************************************************)
CallSanitizeName ==
  /\ call = NoCall
  /\ \E name \in NameInputs :
       call' = [fn |-> "_sanitize_name", name |-> name,
                ret |-> Return(_sanitize_name(name))]

CallSafeName ==
  /\ call = NoCall
  /\ \E s \in SolutionInputs, p \in ProblemInputs :
       call' = [fn |-> "safe_name", pair |-> Pair(s, p),
                ret |-> Return(safe_name(Pair(s, p)))]

Init == call = NoCall

NextName == CallSanitizeName \/ CallSafeName

SpecName == Init /\ [][NextName]_vars

(***************************************************************************)
(* Registry readers                                                        *)
(*   check_solutions.py 80-136: read_problem_list, read_models_list,       *)
(*                              read_variant_indices                       *)
(*   pair.py 114-184: read_pairs_file, read_problems_file,                 *)
(*                    read_models_file, read_variants_file                 *)
(* A reader is given the content of its file: the sequence of its lines,   *)
(* or ABSENT.                                                              *)
(***************************************************************************)
\* "research/"
RESEARCH == <<"r", "e", "s", "e", "a", "r", "c", "h", "/">>

\* "problems/"
PROBLEMS == <<"p", "r", "o", "b", "l", "e", "m", "s", "/">>

\* ("research/problems/", "problems/")
PREFIXES == <<RESEARCH \o PROBLEMS, PROBLEMS>>

\* `not stripped or stripped.startswith("#")`
Skipped(stripped) == stripped = <<>> \/ StartsWith(stripped, <<"#">>)

\* `for prefix in (...): if line.startswith(prefix): line = line[len(prefix):];
\* break`
StripFirstPrefix(line) ==
  IF StartsWith(line, PREFIXES[1]) THEN Drop(line, Len(PREFIXES[1]))
  ELSE IF StartsWith(line, PREFIXES[2]) THEN Drop(line, Len(PREFIXES[2]))
  ELSE line

RECURSIVE ProblemListLoop(_, _)
\* read_problem_list: `problems` after the first i lines
ProblemListLoop(lines, i) ==
  IF i = 0 THEN <<>>
  ELSE LET problems == ProblemListLoop(lines, i - 1)
           line == Strip(lines[i], Whitespace)
       IN  IF Skipped(line) THEN problems
           ELSE Append(problems, StripFirstPrefix(line))

read_problem_list(path) ==
  IF ~path.exists THEN Return(<<>>)
  ELSE Return(ProblemListLoop(path.lines, Len(path.lines)))

RECURSIVE ProblemsFileLoop(_, _)
\* read_problems_file: `problems` after the first i lines
ProblemsFileLoop(lines, i) ==
  IF i = 0 THEN <<>>
  ELSE LET problems == ProblemsFileLoop(lines, i - 1)
           stripped == Strip(lines[i], Whitespace)
       IN  IF Skipped(stripped) THEN problems
           ELSE IF StartsWith(stripped, RESEARCH)
                THEN Append(problems, Drop(stripped, Len(RESEARCH)))
                ELSE Append(problems, stripped)

\* path.open("r") of a path that does not exist raises FileNotFoundError
read_problems_file(path) ==
  IF ~path.exists THEN Raise("FileNotFoundError")
  ELSE Return(ProblemsFileLoop(path.lines, Len(path.lines)))

RECURSIVE ModelsLoop(_, _)
\* read_models_list and read_models_file: `models` after the first i lines
ModelsLoop(lines, i) ==
  IF i = 0 THEN <<>>
  ELSE LET models == ModelsLoop(lines, i - 1)
           line == Strip(lines[i], Whitespace)
       IN  IF Skipped(line) THEN models ELSE Append(models, line)

read_models_list(path) ==
  IF ~path.exists THEN Return(<<>>)
  ELSE Return(ModelsLoop(path.lines, Len(path.lines)))

read_models_file(path) ==
  IF ~path.exists THEN Raise("FileNotFoundError")
  ELSE Return(ModelsLoop(path.lines, Len(path.lines)))

DigitValue(ch) == (CHOOSE i \in 1..10 : Digits[i] = ch) - 1

\* whether int(s) succeeds, for a stripped s: an optional sign, then digits
\* with single underscores allowed between them
IsInt(s) ==
  LET body == IF s # <<>> /\ s[1] \in {"+", "-"} THEN Tail(s) ELSE s
  IN  /\ body # <<>>
      /\ \A i \in 1..Len(body) : body[i] \in Range(Digits) \cup {"_"}
      /\ body[1] # "_" /\ body[Len(body)] # "_"
      /\ \A i \in 1..(Len(body) - 1) : ~(body[i] = "_" /\ body[i + 1] = "_")

RECURSIVE DecimalValue(_, _)
\* the number written by the digits among the first i characters of body
DecimalValue(body, i) ==
  IF i = 0 THEN 0
  ELSE IF body[i] = "_" THEN DecimalValue(body, i - 1)
  ELSE 10 * DecimalValue(body, i - 1) + DigitValue(body[i])

\* int(s) when IsInt(s)
IntOf(s) ==
  IF s[1] = "-" THEN 0 - DecimalValue(Tail(s), Len(s) - 1)
  ELSE IF s[1] = "+" THEN DecimalValue(Tail(s), Len(s) - 1)
  ELSE DecimalValue(s, Len(s))

\* list(range(count))
RangeList(count) == [i \in 1..count |-> i - 1]

RECURSIVE SurvivingLoop(_, _)
\* read_variant_indices: `lines` after the first i lines of the file
SurvivingLoop(text, i) ==
  IF i = 0 THEN <<>>
  ELSE LET lines == SurvivingLoop(text, i - 1)
           line == Strip(text[i], Whitespace)
       IN  IF line # <<>> /\ ~StartsWith(line, <<"#">>) THEN Append(lines, line)
           ELSE lines

RECURSIVE IndicesLoop(_, _)
\* `indices` (`variants`) after the first i stripped lines: int(line)
\* appended, a ValueError passed over
IndicesLoop(lines, i) ==
  IF i = 0 THEN <<>>
  ELSE LET indices == IndicesLoop(lines, i - 1)
       IN  IF IsInt(lines[i]) THEN Append(indices, IntOf(lines[i])) ELSE indices

read_variant_indices(path) ==
  IF ~path.exists THEN Return(<<0>>)
  ELSE LET lines == SurvivingLoop(path.lines, Len(path.lines))
           indices == IndicesLoop(lines, Len(lines))
       IN  IF lines = <<>> THEN Return(<<0>>)
           ELSE IF Len(lines) = 1 /\ IsInt(lines[1])
                THEN IF IntOf(lines[1]) > 0
                     THEN Return(RangeList(IntOf(lines[1])))
                     ELSE Return(<<0>>)
           ELSE IF indices # <<>> THEN Return(indices) ELSE Return(<<0>>)

RECURSIVE VariantsFileLoop(_, _)
\* read_variants_file: `variants` after the first i lines of the file
VariantsFileLoop(text, i) ==
  IF i = 0 THEN <<>>
  ELSE LET variants == VariantsFileLoop(text, i - 1)
           stripped == Strip(text[i], Whitespace)
       IN  IF Skipped(stripped) THEN variants
           ELSE IF IsInt(stripped) THEN Append(variants, IntOf(stripped))
           ELSE variants

read_variants_file(path) ==
  IF ~path.exists THEN Return(<<0>>)
  ELSE LET variants == VariantsFileLoop(path.lines, Len(path.lines))
       IN  IF variants # <<>> THEN Return(variants) ELSE Return(<<0>>)

RECURSIVE PairsFileLoop(_, _)
\* read_pairs_file: `pairs` after the first i lines, or the ValueError
\* raised at one of them
PairsFileLoop(lines, i) ==
  IF i = 0 THEN Return(<<>>)
  ELSE LET before == PairsFileLoop(lines, i - 1)
           stripped == Strip(lines[i], Whitespace)
           parts == Split1(stripped, ":")
       IN  IF before.kind = "raise" THEN before
           ELSE IF Skipped(stripped) THEN before
           ELSE IF ~Contains(stripped, ":") THEN Raise("ValueError")
           ELSE Return(Append(before.value,
                              Pair(Strip(parts[1], Whitespace),
                                   Strip(parts[2], Whitespace))))

read_pairs_file(path) ==
  IF ~path.exists THEN Raise("FileNotFoundError")
  ELSE PairsFileLoop(path.lines, Len(path.lines))

(***************************************************************************)
(* Inputs of the readers: files of at most MaxLines lines.                 *)
(***************************************************************************)
MaxLines == 2

\* the files whose lines are in `lines`, and the absent file
Files(lines) ==
  {ABSENT} \cup {TextFile(text) : text \in UNION {[1..k -> lines] : k \in 0..MaxLines}}

ProblemLines ==
  { <<>>, <<" ">>, <<"#", "p">>, <<" ", "#">>,
    <<"p">>, <<" ", "q", "/", "r", " ">>,
    RESEARCH \o PROBLEMS \o <<"p">>,
    PROBLEMS \o <<"p">>,
    RESEARCH \o <<"p">>,
    RESEARCH \o PROBLEMS \o PROBLEMS \o <<"p">>,
    PROBLEMS \o RESEARCH \o PROBLEMS \o <<"p">>,
    <<" ">> \o RESEARCH \o PROBLEMS }

ModelLines ==
  { <<>>, <<" ">>, <<"#", "m">>, <<"m">>, <<" ", "G", "-", "5", " ">>,
    <<"m", "#">> }

VariantLines ==
  { <<>>, <<" ">>, <<"#", "1">>, <<"3">>, <<"0">>, <<"-", "2">>, <<" ", "2", " ">>,
    <<"x">>, <<"1", "x">>, <<"+", "1">>, <<"1", "_", "0">> }

PairLines ==
  { <<>>, <<" ">>, <<"#", "s", ":", "p">>,
    <<"s", ":", "p">>, <<" ", "s", " ", ":", " ", "p", " ">>,
    <<"s", ":", "p", ":", "q">>, <<"s">>, <<"s", "#">>,
    <<":", "p">>, <<"s", ":">>,
    <<"a", "-", "b", ":", "c">>, <<"a", ":", "b", "-", "c">> }

(***************************************************************************)
(* Actions: one call of a reader.                                          *)
(***************************************************************************)
CallReadProblemList ==
  /\ call = NoCall
  /\ \E path \in Files(ProblemLines) :
       call' = [fn |-> "read_problem_list", path |-> path,
                ret |-> read_problem_list(path)]

CallReadProblemsFile ==
  /\ call = NoCall
  /\ \E path \in Files(ProblemLines) :
       call' = [fn |-> "read_problems_file", path |-> path,
                ret |-> read_problems_file(path)]

CallReadModelsList ==
  /\ call = NoCall
  /\ \E path \in Files(ModelLines) :
       call' = [fn |-> "read_models_list", path |-> path,
                ret |-> read_models_list(path)]

CallReadModelsFile ==
  /\ call = NoCall
  /\ \E path \in Files(ModelLines) :
       call' = [fn |-> "read_models_file", path |-> path,
                ret |-> read_models_file(path)]

CallReadVariantIndices ==
  /\ call = NoCall
  /\ \E path \in Files(VariantLines) :
       call' = [fn |-> "read_variant_indices", path |-> path,
                ret |-> read_variant_indices(path)]

CallReadVariantsFile ==
  /\ call = NoCall
  /\ \E path \in Files(VariantLines) :
       call' = [fn |-> "read_variants_file", path |-> path,
                ret |-> read_variants_file(path)]

CallReadPairsFile ==
  /\ call = NoCall
  /\ \E path \in Files(PairLines) :
       call' = [fn |-> "read_pairs_file", path |-> path,
                ret |-> read_pairs_file(path)]

NextReaders ==
  \/ CallReadProblemList
  \/ CallReadProblemsFile
  \/ CallReadModelsList
  \/ CallReadModelsFile
  \/ CallReadVariantIndices
  \/ CallReadVariantsFile
  \/ CallReadPairsFile

SpecReaders == Init /\ [][NextReaders]_vars

(***************************************************************************)
(* Naming policy: get_model_prefix and sanitize_problem_name, imported     *)
(* from frontier_cs.models (pair.py 12, check_solutions.py 19).  Two       *)
(* deterministic, idempotent functions from strings to tokens.             *)
(***************************************************************************)
\* the problem with every path separator replaced by "_"
sanitize_problem_name(problem) ==
  [i \in 1..Len(problem) |-> IF problem[i] = "/" THEN "_" ELSE problem[i]]

IsAlnum(ch) == ch \in valid \ {"-"}

\* the lowercased model name without the characters outside [a-z0-9]
get_model_prefix(model) == SelectSeq(Lower(model), IsAlnum)

(***************************************************************************)
(* expand_pairs (pair.py 68-111) and compute_expected                      *)
(* (check_solutions.py 155-170).                                           *)
(***************************************************************************)
RECURSIVE DecimalDigits(_)
\* str(n) for n >= 0
DecimalDigits(n) ==
  IF n < 10 THEN <<Digits[n + 1]>>
  ELSE Append(DecimalDigits(n \div 10), Digits[(n % 10) + 1])

\* str(n), as an f-string formats an int
StrOfInt(n) == IF n < 0 THEN <<"-">> \o DecimalDigits(0 - n) ELSE DecimalDigits(n)

\* suffix = "" if variant_idx == 0 else f"_{variant_idx}" with a missing
\* "_": f"{variant_idx}"
VariantSuffix_no_sep(variant_idx) ==
  IF variant_idx = 0 THEN <<>> ELSE StrOfInt(variant_idx)

\* suffix = "" if variant_idx == 0 else f"_{variant_idx}"
VariantSuffix(variant_idx) ==
  IF variant_idx = 0 THEN <<>> ELSE <<"_">> \o StrOfInt(variant_idx)

\* solution_name = f"{model_prefix}_{problem_name}{suffix}"
SolutionName(model_prefix, problem_name, variant_idx) ==
  model_prefix \o <<"_">> \o problem_name \o VariantSuffix(variant_idx)

\* a directory of solutions: whether it is a directory at all, and its
\* entries by name
NoDir == [is_dir |-> FALSE, entries |-> <<>>]

Dir(entries) == [is_dir |-> TRUE, entries |-> entries]

\* (solutions_dir / solution_name).exists()
PathExists(solutions_dir, name) == name \in DOMAIN solutions_dir.entries

RECURSIVE ExpandVariants(_, _, _, _, _)
\* `for variant_idx in variants`: `pairs` after the first k variants, for one
\* problem and one model.  a holds the arguments of expand_pairs;
\* has_dir is `solutions_dir` taken as a condition (it is not None).
ExpandVariants(a, pairs, problem, model, k) ==
  IF k = 0 THEN pairs
  ELSE LET before == ExpandVariants(a, pairs, problem, model, k - 1)
           solution_name == SolutionName(get_model_prefix(model),
                                         sanitize_problem_name(problem),
                                         a.variants[k])
       IN  IF /\ a.validate_paths /\ a.has_dir
              /\ ~PathExists(a.solutions_dir, solution_name)
           THEN before
           ELSE Append(before, Pair(solution_name, problem))

RECURSIVE ExpandModels(_, _, _, _)
\* `for model in models`: `pairs` after the first j models, for one problem
ExpandModels(a, pairs, problem, j) ==
  IF j = 0 THEN pairs
  ELSE ExpandVariants(a, ExpandModels(a, pairs, problem, j - 1), problem,
                      a.models[j], Len(a.variants))

RECURSIVE ExpandProblems(_, _)
\* `for problem in problems`: `pairs` after the first i problems
ExpandProblems(a, i) ==
  IF i = 0 THEN <<>>
  ELSE ExpandModels(a, ExpandProblems(a, i - 1), a.problems[i], Len(a.models))

\* `if variants is None: variants = [0]`, then the loops
expand_pairs(a) ==
  LET b == IF a.variants_given THEN a ELSE [a EXCEPT !.variants = <<0>>]
  IN  Return(ExpandProblems(b, Len(b.problems)))

\* the assignment with an existing key left alone
Put_keep_first(dict, key, v) ==
  [x \in DOMAIN dict \cup {key} |-> IF x \in DOMAIN dict THEN dict[x] ELSE v]

\* expected[solution_name] = problem
Put(dict, key, v) == [x \in DOMAIN dict \cup {key} |-> IF x = key THEN v ELSE dict[x]]

\* {}
EmptyDict == [x \in {} |-> <<>>]

RECURSIVE ExpectedVariants(_, _, _, _, _)
\* compute_expected, `for variant_idx in variants`: `expected` after the first
\* k variants, for one problem and one model
ExpectedVariants(a, expected, problem, model, k) ==
  IF k = 0 THEN expected
  ELSE Put(ExpectedVariants(a, expected, problem, model, k - 1),
           SolutionName(get_model_prefix(model), sanitize_problem_name(problem),
                        a.variants[k]),
           problem)

RECURSIVE ExpectedModels(_, _, _, _)
\* `for model in models`: `expected` after the first j models, for one problem
ExpectedModels(a, expected, problem, j) ==
  IF j = 0 THEN expected
  ELSE ExpectedVariants(a, ExpectedModels(a, expected, problem, j - 1), problem,
                        a.models[j], Len(a.variants))

RECURSIVE ExpectedProblems(_, _)
\* `for problem in problems`: `expected` after the first i problems
ExpectedProblems(a, i) ==
  IF i = 0 THEN EmptyDict
  ELSE ExpectedModels(a, ExpectedProblems(a, i - 1), a.problems[i], Len(a.models))

compute_expected(a) == Return(ExpectedProblems(a, Len(a.problems)))

(***************************************************************************)
(* Inputs of the expansion.                                                *)
(***************************************************************************)
MaxProblems == 2

MaxModels == 2

ProblemIds == {<<"p">>, <<"p", "_", "1">>, <<"q", "/", "r">>}

ModelNames == {<<"m">>, <<"G", "-", "5">>}

ListsUpTo(S, n) == UNION {[1..k -> S] : k \in 0..n}

\* the lists of variant indices: none, the default, counts, explicit
\* indices with a repeat, a two-digit and a negative index
VariantLists ==
  { <<>>, <<0>>, <<0, 1>>, <<1, 0>>, <<0, 1, 2>>, <<1, 1>>, <<12>>, <<0, -1>> }

\* the `variants` argument of expand_pairs: a list, or None
VariantArgs ==
  {[given |-> TRUE, list |-> l] : l \in VariantLists}
    \cup {[given |-> FALSE, list |-> <<>>]}

\* solutions_dir / name is a directory without any file
EmptyEntry == [is_dir |-> TRUE, config |-> ABSENT]

\* solutions_dir of expand_pairs: None, or a directory holding some of the
\* expected solutions
ExpandDirs ==
  { [has_dir |-> FALSE, solutions_dir |-> NoDir],
    [has_dir |-> TRUE, solutions_dir |-> Dir([n \in {} |-> EmptyEntry])],
    [has_dir |-> TRUE,
     solutions_dir |-> Dir([n \in {<<"m", "_", "p">>, <<"m", "_", "p", "_", "1">>}
                              |-> EmptyEntry])] }

(***************************************************************************)
(* Actions: one call of an expansion.                                      *)
(***************************************************************************)
CallExpandPairs ==
  /\ call = NoCall
  /\ \E problems \in ListsUpTo(ProblemIds, MaxProblems),
        models \in ListsUpTo(ModelNames, MaxModels),
        v \in VariantArgs,
        d \in ExpandDirs,
        validate_paths \in BOOLEAN :
       LET a == [problems |-> problems, models |-> models,
                 variants_given |-> v.given, variants |-> v.list,
                 has_dir |-> d.has_dir, solutions_dir |-> d.solutions_dir,
                 validate_paths |-> validate_paths]
       IN  call' = [fn |-> "expand_pairs", args |-> a, ret |-> expand_pairs(a)]

CallComputeExpected ==
  /\ call = NoCall
  /\ \E problems \in ListsUpTo(ProblemIds, MaxProblems),
        models \in ListsUpTo(ModelNames, MaxModels),
        variants \in VariantLists :
       LET a == [problems |-> problems, models |-> models, variants |-> variants]
       IN  call' = [fn |-> "compute_expected", args |-> a, ret |-> compute_expected(a)]

NextExpand == CallExpandPairs \/ CallComputeExpected

SpecExpand == Init /\ [][NextExpand]_vars

(***************************************************************************)
(* Coverage check: read_solution_config, collect_actual and main           *)
(* (check_solutions.py 139-152, 173-182, 185-325).                         *)
(***************************************************************************)
\* "problem:"
PROBLEM_KEY == <<"p", "r", "o", "b", "l", "e", "m", ":">>

RECURSIVE ConfigScan(_, _)
\* `for line in content.splitlines()` from line i on: the value of the first
\* line that starts with "problem:", None when there is none
ConfigScan(lines, i) ==
  IF i > Len(lines) THEN None
  ELSE IF StartsWith(Strip(lines[i], Whitespace), PROBLEM_KEY)
       THEN Strip(Split1(Strip(lines[i], Whitespace), ":")[2], Whitespace)
       ELSE ConfigScan(lines, i + 1)

\* read_solution_config of a solution directory, given its config.yaml
read_solution_config(config_file) ==
  IF ~config_file.exists THEN None ELSE ConfigScan(config_file.lines, 1)

\* `sol_dir.is_dir() and not sol_dir.name.startswith(".")`
IsSolutionDir(solutions_dir, name) ==
  /\ solutions_dir.entries[name].is_dir
  /\ ~StartsWith(name, <<".">>)

collect_actual(solutions_dir) ==
  IF ~solutions_dir.is_dir THEN EmptyDict
  ELSE [name \in {n \in DOMAIN solutions_dir.entries : IsSolutionDir(solutions_dir, n)}
          |-> read_solution_config(solutions_dir.entries[name].config)]

\* generated without the solutions that have no config
Generated_configured(expected, actual) ==
  {name \in DOMAIN expected \cap DOMAIN actual : actual[name] # None}

\* generated = expected_set & actual_set
Generated(expected, actual) == DOMAIN expected \cap DOMAIN actual

\* missing = expected_set - actual_set
Missing(expected, actual) == DOMAIN expected \ DOMAIN actual

\* extra = actual_set - expected_set
Extra(expected, actual) == DOMAIN actual \ DOMAIN expected

\* no_config = {name for name, problem in actual.items() if problem is None}
NoConfig(actual) == {name \in DOMAIN actual : actual[name] = None}

\* the exit code with the solutions without config forgotten
ExitCode_missing_only(no_config, total_missing) ==
  IF total_missing > 0 THEN 1 ELSE 0

\* return 1 if (no_config or total_missing > 0) else 0
ExitCode(no_config, total_missing) ==
  IF no_config # {} \/ total_missing > 0 THEN 1 ELSE 0

\* main, up to the report: the files read, expected and actual computed and
\* analyzed.  a holds the paths given on the command line.
Analysis(a) ==
  LET problems == IF a.problems_file.exists
                  THEN read_problem_list(a.problems_file).value ELSE <<>>
      models == IF a.models_file.exists
                THEN read_models_list(a.models_file).value ELSE <<>>
      variants == IF a.variants_file.exists
                  THEN read_variant_indices(a.variants_file).value ELSE <<0>>
      expected == IF problems # <<>> /\ models # <<>>
                  THEN compute_expected([problems |-> problems, models |-> models,
                                         variants |-> variants]).value
                  ELSE EmptyDict
      actual == collect_actual(a.solutions_dir)
  IN  [expected |-> expected,
       actual |-> actual,
       generated |-> Generated(expected, actual),
       missing |-> Missing(expected, actual),
       extra |-> Extra(expected, actual),
       no_config |-> NoConfig(actual)]

\* main: the exit code, from the analysis
main(report) == Return(ExitCode(report.no_config, Cardinality(report.missing)))

(***************************************************************************)
(* Inputs of the coverage check.                                           *)
(***************************************************************************)
\* "problem: p"
CONFIG_P == PROBLEM_KEY \o <<" ", "p">>

\* what may be at solutions_dir / name: a plain file, a directory without
\* config.yaml, with a config.yaml that has no problem line, with
\* "problem: p"
EntryKinds ==
  { [is_dir |-> FALSE, config |-> ABSENT],
    [is_dir |-> TRUE, config |-> ABSENT],
    [is_dir |-> TRUE, config |-> TextFile(<<<<"#", "x">>>>)],
    [is_dir |-> TRUE, config |-> TextFile(<<<<"#", "x">>, <<" ">> \o CONFIG_P>>)] }

\* two names the expansion can expect, one it cannot, a hidden one
DirNames ==
  { <<"m", "_", "p">>, <<"m", "_", "p", "_", "1">>, <<"z">>, <<".", "h">> }

SolutionDirs ==
  {NoDir} \cup
  {Dir(entries) : entries \in UNION {[names -> EntryKinds] : names \in SUBSET DirNames}}

MainProblemFiles == {ABSENT, TextFile(<<>>), TextFile(<<PROBLEMS \o <<"p">>>>)}

MainModelFiles == {ABSENT, TextFile(<<<<"m">>>>)}

MainVariantFiles == {ABSENT, TextFile(<<<<"2">>>>)}

(***************************************************************************)
(* Action: one run of the coverage check.                                  *)
(***************************************************************************)
CallMain ==
  /\ call = NoCall
  /\ \E pf \in MainProblemFiles, mf \in MainModelFiles, vf \in MainVariantFiles,
        dir \in SolutionDirs :
       LET a == [problems_file |-> pf, models_file |-> mf, variants_file |-> vf,
                 solutions_dir |-> dir]
           report == Analysis(a)
       IN  call' = [fn |-> "main", args |-> a, report |-> report, ret |-> main(report)]

NextCoverage == CallMain

SpecCoverage == Init /\ [][NextCoverage]_vars

(***************************************************************************)
(* Every call.                                                             *)
(***************************************************************************)
Next ==
  \/ CallSanitizeName
  \/ CallSafeName
  \/ CallReadProblemList
  \/ CallReadProblemsFile
  \/ CallReadModelsList
  \/ CallReadModelsFile
  \/ CallReadVariantIndices
  \/ CallReadVariantsFile
  \/ CallReadPairsFile
  \/ CallExpandPairs
  \/ CallComputeExpected
  \/ CallMain

Spec == Init /\ [][Next]_vars

(***************************************************************************)
(* Properties of the naming functions.                                     *)
(***************************************************************************)
LowerLetters ==
  {"a", "b", "c", "d", "e", "f", "g", "h", "i", "j", "k", "l", "m", "n", "o",
   "p", "q", "r", "s", "t", "u", "v", "w", "x", "y", "z"}

DigitChars == {"0", "1", "2", "3", "4", "5", "6", "7", "8", "9"}

\* [a-z0-9-]
NameCharset == LowerLetters \cup DigitChars \cup {"-"}

\* C1: for every (solution, problem), Pair.safe_name is non-empty, at most 63
\* characters long, made of characters of [a-z0-9-] only, and neither starts
\* nor ends with "-".
C1_SafeNameBounds ==
  call.fn = "safe_name" =>
    /\ call.ret.kind = "return"
    /\ call.ret.value # <<>>
    /\ Len(call.ret.value) <= 63
    /\ \A i \in 1..Len(call.ret.value) : call.ret.value[i] \in NameCharset
    /\ call.ret.value[1] # "-"
    /\ call.ret.value[Len(call.ret.value)] # "-"

\* a pair whose base is longer than 63 characters and whose sanitized base has
\* a dash at the truncation point, so that the name is shorter than 63
C1_Witness ==
  /\ call.fn = "safe_name"
  /\ Len(call.pair.solution) + 1 + Len(call.pair.problem) > 63
  /\ "_" \in Range(call.pair.problem)
  /\ Len(call.ret.value) < 63

Dropped == ""

NotDropped(c) == c # Dropped

\* the lowercased string s with every maximal run of characters outside
\* [a-z0-9-] replaced by one "-"; with `after_dash` false, a run that directly
\* follows a "-" is dropped instead
ReplaceRuns(s, after_dash) ==
  SelectSeq(
    [i \in 1..Len(s) |->
       IF s[i] \in NameCharset THEN s[i]
       ELSE IF i > 1 /\ s[i - 1] \notin NameCharset THEN Dropped
       ELSE IF i > 1 /\ s[i - 1] = "-" /\ ~after_dash THEN Dropped
       ELSE "-"],
    NotDropped)

\* the result the claim describes: runs replaced, "-" stripped from both ends,
\* "job" when nothing is left
Sanitized(name, after_dash) ==
  LET stripped == Strip(ReplaceRuns(Lower(name), after_dash), {"-"})
  IN  IF stripped = <<>> THEN JOB ELSE stripped

\* C9 as stated: _sanitize_name returns the lowercased input with every
\* maximal run of characters outside [a-z0-9-] replaced by exactly one "-",
\* also when a "-" is adjacent to the run, stripped of leading and trailing
\* "-"; "job" when nothing is left.
C9_AsStated ==
  call.fn = "_sanitize_name" =>
    call.ret = Return(Sanitized(call.name, TRUE))

\* C9 amended: as C9, except that a run directly preceded by a "-" is dropped
\* (replaced by nothing), and the result is "job" whenever the stripped string
\* is empty (empty input, only invalid characters, only "-" and invalid
\* characters).
C9_SanitizeName ==
  call.fn = "_sanitize_name" =>
    call.ret = Return(Sanitized(call.name, FALSE))

\* an input with a run after a "-" and a "-" after a run
C9_Witness ==
  /\ call.fn = "_sanitize_name"
  /\ call.name = <<"a", "-", "_", "B">>
  /\ call.ret = Return(<<"a", "-", "b">>)

(***************************************************************************)
(* Properties of the registry readers.                                     *)
(***************************************************************************)
\* a line that is neither blank nor a comment, once trimmed
Survives(line) == line # <<>> /\ line[1] # "#"

\* the trimmed lines of a file that survive, in file order
Surviving(path) ==
  SelectSeq([i \in 1..Len(path.lines) |-> Strip(path.lines[i], Whitespace)], Survives)

\* what C5 says the variant-index reader returns
ClaimedVariants(path) ==
  LET lines == Surviving(path)
      parsed == SelectSeq(lines, IsInt)
  IN  IF ~path.exists THEN <<0>>
      ELSE IF Len(lines) = 1 /\ IsInt(lines[1])
           THEN IF IntOf(lines[1]) > 0
                THEN [i \in 1..IntOf(lines[1]) |-> i - 1]
                ELSE <<0>>
      ELSE IF parsed = <<>> THEN <<0>>
      ELSE [i \in 1..Len(parsed) |-> IntOf(parsed[i])]

\* C5: read_variant_indices and read_variants_file return [0] for an absent
\* file, [0, ..., n-1] (or [0] when n <= 0) for a single surviving line that
\* is the integer n, and otherwise the integers of the surviving lines that
\* parse, in file order, or [0] when none parses.
C5_VariantReaders ==
  call.fn \in {"read_variant_indices", "read_variants_file"} =>
    call.ret = Return(ClaimedVariants(call.path))

\* read_variant_indices alone does what C5 says
C5_ReadVariantIndices ==
  call.fn = "read_variant_indices" => call.ret = Return(ClaimedVariants(call.path))

\* the place of the first ":" of a line that has one
FirstColon(line) == SetMin({k \in 1..Len(line) : line[k] = ":"})

\* C6: read_pairs_file either returns, in file order, one Pair per surviving
\* line, split at the line's first ":" with both parts trimmed, or, when a
\* surviving line has no ":", raises a parse error and returns no pairs.
C6_ReadPairsFile ==
  (call.fn = "read_pairs_file" /\ call.path.exists) =>
    LET lines == Surviving(call.path)
    IN  IF \E i \in 1..Len(lines) : ":" \notin Range(lines[i])
        THEN /\ call.ret.kind = "raise"
             /\ call.ret.exc = "ValueError"
             /\ call.ret.value = <<>>
        ELSE /\ call.ret.kind = "return"
             /\ Len(call.ret.value) = Len(lines)
             /\ \A i \in 1..Len(lines) :
                  /\ call.ret.value[i].solution =
                       Strip(SubSeq(lines[i], 1, FirstColon(lines[i]) - 1), Whitespace)
                  /\ call.ret.value[i].problem =
                       Strip(SubSeq(lines[i], FirstColon(lines[i]) + 1, Len(lines[i])),
                             Whitespace)

\* a file whose first line is a pair and whose last line has no ":": the
\* error is raised and the pair read before it is not returned
C6_Witness ==
  /\ call.fn = "read_pairs_file"
  /\ call.path.exists
  /\ Len(call.path.lines) >= 2
  /\ ":" \in Range(call.path.lines[1])
  /\ Survives(Strip(call.path.lines[1], Whitespace))
  /\ call.path.lines[Len(call.path.lines)] = <<"s">>
  /\ call.ret = Raise("ValueError")

\* C7: the problem-list, model-list and variant readers never raise for an
\* absent file or a file with no surviving line: the list readers return the
\* empty list and the variant readers return [0].
C7_NoRaiseWhenAbsentOrEmpty ==
  /\ (/\ call.fn \in {"read_problem_list", "read_problems_file",
                       "read_models_list", "read_models_file"}
      /\ Surviving(call.path) = <<>>)
       => call.ret = Return(<<>>)
  /\ (/\ call.fn \in {"read_variant_indices", "read_variants_file"}
      /\ Surviving(call.path) = <<>>)
       => call.ret = Return(<<0>>)

\* C8: two distinct (solution, problem) pairs never have the same safe name,
\* also when "-" occurs inside the solution or the problem; here for the
\* pairs that one pair file holds.
C8_SafeNameInjective ==
  (call.fn = "read_pairs_file" /\ call.ret.kind = "return") =>
    \A i, j \in 1..Len(call.ret.value) :
      call.ret.value[i] # call.ret.value[j] => safe_name(call.ret.value[i]) # safe_name(call.ret.value[j])

\* safe names differ whenever the bases "{solution}-{problem}" differ
C8_DistinctBases ==
  (call.fn = "read_pairs_file" /\ call.ret.kind = "return") =>
    \A i, j \in 1..Len(call.ret.value) :
      (call.ret.value[i].solution \o <<"-">> \o call.ret.value[i].problem
         # call.ret.value[j].solution \o <<"-">> \o call.ret.value[j].problem)
        => safe_name(call.ret.value[i]) # safe_name(call.ret.value[j])

\* a line with a leading "research/problems/" or "problems/" removed
WithoutPrefix(line) ==
  IF StartsWith(line, RESEARCH \o PROBLEMS)
  THEN SubSeq(line, Len(RESEARCH) + Len(PROBLEMS) + 1, Len(line))
  ELSE IF StartsWith(line, PROBLEMS)
       THEN SubSeq(line, Len(PROBLEMS) + 1, Len(line))
       ELSE line

\* what C10 says the problem-list reader returns
ClaimedProblems(path) ==
  LET lines == Surviving(path) IN [i \in 1..Len(lines) |-> WithoutPrefix(lines[i])]

\* C10: read_problem_list and read_problems_file return, in file order, each
\* surviving line trimmed, with a leading "research/problems/" or "problems/"
\* removed when present (at most one prefix per line).
C10_ProblemReaders ==
  (call.fn \in {"read_problem_list", "read_problems_file"} /\ call.path.exists) =>
    call.ret = Return(ClaimedProblems(call.path))

\* read_problem_list alone does what C10 says
C10_ReadProblemList ==
  call.fn = "read_problem_list" => call.ret = Return(ClaimedProblems(call.path))

(***************************************************************************)
(* Properties of the expansion.                                            *)
(***************************************************************************)
\* canonicalizePrefix(model) + "_" + canonicalizeProblem(problem) + suffix
ClaimedName(problem, model, v) ==
  get_model_prefix(model) \o <<"_">> \o sanitize_problem_name(problem)
    \o (IF v = 0 THEN <<>> ELSE <<"_">> \o StrOfInt(v))

\* the variants expand_pairs runs over: [0] when none are given
VariantsOf(a) == IF a.variants_given THEN a.variants ELSE <<0>>

\* the triples (i, j, k) of positions in problems, models and variants
Triples(problems, models, variants) ==
  (1..Len(problems)) \X (1..Len(models)) \X (1..Len(variants))

\* the place of triple t in problem-major, then model, then variant order
Place(t, models, variants) ==
  (t[1] - 1) * Len(models) * Len(variants) + (t[2] - 1) * Len(variants) + t[3]

\* expand_pairs without path validation returns |problems| * |models| *
\* |variants| pairs, the pair of each triple at the triple's place, with the
\* claimed name and the original problem
ExpandPairsAsClaimed ==
  (/\ call.fn = "expand_pairs"
   /\ ~(call.args.validate_paths /\ call.args.has_dir)) =>
    LET P == call.args.problems
        M == call.args.models
        V == VariantsOf(call.args)
    IN  /\ call.ret.kind = "return"
        /\ Len(call.ret.value) = Len(P) * Len(M) * Len(V)
        /\ \A t \in Triples(P, M, V) :
             call.ret.value[Place(t, M, V)]
               = Pair(ClaimedName(P[t[1]], M[t[2]], V[t[3]]), P[t[1]])

\* C4 as stated: the expansion yields for each triple (problem, model, v)
\* the name canonicalizePrefix(model) + "_" + canonicalizeProblem(problem) +
\* suffix, associated with the original problem, in expand_pairs (which
\* returns exactly |problems| * |models| * |variants| pairs in problem-major
\* order) and in compute_expected.
C4_AsStated ==
  /\ ExpandPairsAsClaimed
  /\ call.fn = "compute_expected" =>
       LET P == call.args.problems
           M == call.args.models
           V == call.args.variants
       IN  /\ call.ret.kind = "return"
           /\ \A t \in Triples(P, M, V) :
                /\ ClaimedName(P[t[1]], M[t[2]], V[t[3]]) \in DOMAIN call.ret.value
                /\ call.ret.value[ClaimedName(P[t[1]], M[t[2]], V[t[3]])] = P[t[1]]

\* C4 amended: as C4 for expand_pairs; compute_expected has exactly the names
\* of the triples as keys, and maps each name to the original problem of the
\* LAST triple (in problem-major, then model, then variant order) that yields
\* that name, so a triple keeps its own problem unless a later triple yields
\* the same name.
C4_Expansion ==
  /\ ExpandPairsAsClaimed
  /\ call.fn = "compute_expected" =>
       LET P == call.args.problems
           M == call.args.models
           V == call.args.variants
           NameOf(t) == ClaimedName(P[t[1]], M[t[2]], V[t[3]])
       IN  /\ call.ret.kind = "return"
           /\ DOMAIN call.ret.value = {NameOf(t) : t \in Triples(P, M, V)}
           /\ \A t \in Triples(P, M, V) :
                (\A u \in Triples(P, M, V) :
                   NameOf(u) = NameOf(t) => Place(u, M, V) <= Place(t, M, V))
                  => call.ret.value[NameOf(t)] = P[t[1]]

\* problems "p" and "p_1" with variants 0 and 1: the name m_p_1 of
\* ("p", "m", 1) is written again by ("p_1", "m", 0)
C4_Witness ==
  /\ call.fn = "compute_expected"
  /\ call.args.problems = <<<<"p">>, <<"p", "_", "1">>>>
  /\ call.args.models = <<<<"m">>>>
  /\ call.args.variants = <<0, 1>>
  /\ call.ret.value[<<"m", "_", "p", "_", "1">>] = <<"p", "_", "1">>
  /\ Cardinality(DOMAIN call.ret.value) = 3

(***************************************************************************)
(* Properties of the coverage check.                                       *)
(***************************************************************************)
\* C2: main returns 0 if and only if missing = keys(expected) - keys(actual)
\* is empty and unconfigured = {name in actual mapped to None} is empty, and
\* a nonzero status otherwise; the size of extra does not matter.
C2_ExitStatus ==
  call.fn = "main" =>
    LET expected == call.report.expected
        actual == call.report.actual
        missing == {n \in DOMAIN expected : n \notin DOMAIN actual}
        unconfigured == {n \in DOMAIN actual : actual[n] = None}
    IN  /\ call.ret.kind = "return"
        /\ call.ret.value \in Nat
        /\ call.ret.value = 0 <=> (missing = {} /\ unconfigured = {})

\* a run that expects two solutions, finds both configured and one solution
\* more, and succeeds
C2_Witness ==
  /\ call.fn = "main"
  /\ Cardinality(DOMAIN call.report.expected) = 2
  /\ call.report.extra # {}
  /\ call.ret = Return(0)

\* whether a config.yaml holds a problem line
HasProblemLine(config) ==
  /\ config.exists
  /\ \E i \in 1..Len(config.lines) :
       StartsWith(Strip(config.lines[i], Whitespace), PROBLEM_KEY)

\* the entries of the solutions directory that are solution directories
\* with no config record
Unconfigured ==
  IF ~call.args.solutions_dir.is_dir THEN {}
  ELSE {n \in DOMAIN call.args.solutions_dir.entries :
          /\ call.args.solutions_dir.entries[n].is_dir
          /\ n[1] # "."
          /\ ~HasProblemLine(call.args.solutions_dir.entries[n].config)}

\* C3 as stated: a directory entry with no config record is mapped to None by
\* collect_actual, is a member of unconfigured and is not a member of
\* generated, even when its name is a key of expected.
C3_AsStated ==
  call.fn = "main" =>
    \A n \in Unconfigured :
      /\ n \in DOMAIN call.report.actual
      /\ call.report.actual[n] = None
      /\ n \in call.report.no_config
      /\ n \notin call.report.generated

\* C3 amended: a directory entry with no config record is mapped to None by
\* collect_actual and is a member of unconfigured; it is a member of
\* generated exactly when its name is a key of expected (generated is
\* keys(expected) & keys(actual), whatever the config).
C3_Unconfigured ==
  call.fn = "main" =>
    \A n \in Unconfigured :
      /\ n \in DOMAIN call.report.actual
      /\ call.report.actual[n] = None
      /\ n \in call.report.no_config
      /\ n \in call.report.generated <=> n \in DOMAIN call.report.expected

\* an expected solution whose directory has no config.yaml: counted as
\* generated and as unconfigured
C3_Witness ==
  /\ call.fn = "main"
  /\ <<"m", "_", "p">> \in Unconfigured
  /\ <<"m", "_", "p">> \in DOMAIN call.report.expected
  /\ <<"m", "_", "p">> \in call.report.generated \cap call.report.no_config

(***************************************************************************)
(* The two views of one expansion.                                         *)
(***************************************************************************)
\* the list view: expand_pairs on the given lists, without path validation
ListView(problems, models, variants) ==
  expand_pairs([problems |-> problems, models |-> models,
                variants_given |-> TRUE, variants |-> variants,
                has_dir |-> FALSE, solutions_dir |-> NoDir,
                validate_paths |-> FALSE]).value

\* the mapping view: compute_expected on the given lists
MappingView(problems, models, variants) ==
  compute_expected([problems |-> problems, models |-> models,
                    variants |-> variants]).value

\* the position of the last pair of the list that carries the name
LastCarrying(pairs, name) ==
  SetMax({i \in 1..Len(pairs) : pairs[i].solution = name})

\* the mapping is the list read as name -> problem, the last pair winning
SameExpansion(mapping, pairs) ==
  /\ DOMAIN mapping = {pairs[i].solution : i \in 1..Len(pairs)}
  /\ \A name \in DOMAIN mapping :
       mapping[name] = pairs[LastCarrying(pairs, name)].problem

\* C11: for every (problems, models, variants) the key set of
\* compute_expected equals the set of solution names of the pairs of
\* expand_pairs without path validation, each key is mapped to the problem
\* of the last pair, in expand_pairs order, that carries the name (no error
\* on a collision), and repeated input entries add no key: there are at
\* most as many keys as distinct triples.
C11_SameExpansion ==
  /\ call.fn = "compute_expected" =>
       /\ call.ret.kind = "return"
       /\ SameExpansion(call.ret.value,
                        ListView(call.args.problems, call.args.models,
                                 call.args.variants))
       /\ Cardinality(DOMAIN call.ret.value)
            <= Cardinality(Range(call.args.problems))
                 * Cardinality(Range(call.args.models))
                 * Cardinality(Range(call.args.variants))
  /\ (/\ call.fn = "expand_pairs"
      /\ ~(call.args.validate_paths /\ call.args.has_dir)) =>
       /\ call.ret.kind = "return"
       /\ SameExpansion(MappingView(call.args.problems, call.args.models,
                                    VariantsOf(call.args)),
                        call.ret.value)

\* a mapping built from a collision: two pairs of the list view carry one
\* name with different problems, and the name is mapped to the later one
C11_Witness ==
  /\ call.fn = "compute_expected"
  /\ LET pairs == ListView(call.args.problems, call.args.models,
                           call.args.variants)
     IN  \E i, j \in 1..Len(pairs) :
           /\ i < j
           /\ pairs[i].solution = pairs[j].solution
           /\ pairs[i].problem # pairs[j].problem
           /\ call.ret.value[pairs[j].solution] = pairs[j].problem

=============================================================================
